---------------------------- MODULE Spec2Model ----------------------------
(***************************************************************************)
(* The two fine-tuning scripts of the repository as one state machine:     *)
(*   scripts/train_regime_classifier.py  (RegimeClassifierTrainer)         *)
(*   scripts/train_crypto_embeddings.py  (CryptoEmbeddingTrainer)          *)
(* Text is modelled by TLA+ strings, character by character (Len, SubSeq   *)
(* and \o act on strings as on sequences of characters).  JSON input is    *)
(* modelled after lexing, as a sequence of tokens, each token a string.    *)
(***************************************************************************)
EXTENDS Integers, Sequences, FiniteSets, TLC

VARIABLES
    script,      \* which script's trainer object this is: "regime" or "embedding"
    model,       \* self.model
    tokenizer,   \* self.tokenizer (regime trainer only)
    pc,          \* position of the call in progress, "idle" between calls
    error,       \* the exception a call has raised, "none" otherwise
    file,        \* the input file as found at training_data_path
    data,        \* the records load_training_data has read
    lineNo,      \* load_training_data's position in the file (regime)
    dataset,     \* the prepared prompts (regime) or triples (embedding)
    stages,      \* the stages the call in progress has completed, in order
    outDir,      \* what this script has written to self.output_dir
    caseIdx,     \* test_classifier: i + 1 of the test case in hand
    prompt,      \* test_classifier: prompt of the case in hand
    result,      \* test_classifier: the decoded generation
    prediction,  \* test_classifier: prediction
    stdout,      \* test_classifier: the per-case report printed so far
    caseTrace,   \* test_classifier: the (case, state) steps taken so far
    returned,    \* the value the finished call has returned
    calls        \* number of calls made on the object

vars == << script, model, tokenizer, pc, error, file, data, lineNo, dataset,
           stages, outDir, caseIdx, prompt, result, prediction, stdout,
           caseTrace, returned, calls >>

(***************************************************************************)
(* Bounds of the model.                                                    *)
(***************************************************************************)
MaxRecords == 2     \* lines of a JSONL file / elements of a JSON array
MaxCalls == 3       \* calls made on one trainer object
MaxFragments == 3   \* fragments a decoded generation is built from

(***************************************************************************)
(* Text: the str operations the scripts use.                               *)
(***************************************************************************)
Last(s) == s[Len(s)]

Max(S) == CHOOSE x \in S : \A y \in S : y <= x

Min(S) == CHOOSE x \in S : \A y \in S : x <= y

\* str.find, 1-based: the first position sub occurs at in s, 0 when none
Find(s, sub) ==
    LET at == { i \in 1..(Len(s) - Len(sub) + 1) :
                    SubSeq(s, i, i + Len(sub) - 1) = sub }
    IN  IF at = {} THEN 0 ELSE Min(at)

\* sub in s
Contains(s, sub) == Find(s, sub) # 0

StartsWith(s, pre) == Len(pre) <= Len(s) /\ SubSeq(s, 1, Len(pre)) = pre

EndsWith(s, suf) ==
    Len(suf) <= Len(s) /\ SubSeq(s, Len(s) - Len(suf) + 1, Len(s)) = suf

\* s.split(sep) for a non-empty sep: the pieces between the occurrences of
\* sep, scanned left to right
RECURSIVE split(_, _)
split(s, sep) ==
    LET i == Find(s, sep)
    IN  IF i = 0 THEN << s >>
        ELSE << SubSeq(s, 1, i - 1) >>
                 \o split(SubSeq(s, i + Len(sep), Len(s)), sep)

Whitespace == { " ", "\n", "\t", "\r" }

\* s.strip(): s without its leading and trailing whitespace
strip(s) ==
    LET keep == { i \in 1..Len(s) : SubSeq(s, i, i) \notin Whitespace }
    IN  IF keep = {} THEN "" ELSE SubSeq(s, Min(keep), Max(keep))

Uppercase == "ABCDEFGHIJKLMNOPQRSTUVWXYZ"
Lowercase == "abcdefghijklmnopqrstuvwxyz"

LowerChar(c) ==
    LET i == Find(Uppercase, c)
    IN  IF i = 0 THEN c ELSE SubSeq(Lowercase, i, i)

\* s.lower()
RECURSIVE lower(_)
lower(s) ==
    IF Len(s) = 0 THEN ""
    ELSE LowerChar(SubSeq(s, 1, 1)) \o lower(SubSeq(s, 2, Len(s)))

(***************************************************************************)
(* RegimeClassifierTrainer.format_prompt                                   *)
(***************************************************************************)
OpenTag == "<s>[INST]"
CloseTag == "[/INST]"
EosTag == "</s>"
Directive ==
    "Classify the market regime as one of: bull, bear, sideways, or high-volatility"

RegimeKeys == << "instruction", "input", "output" >>

\* the first key the f-string looks up that the example lacks, "" when none
MissingKey(example, keys) ==
    LET lacks == { k \in 1..Len(keys) : keys[k] \notin DOMAIN example }
    IN  IF lacks = {} THEN "" ELSE keys[Min(lacks)]

\* a variant with a single newline between the instruction and the input
format_prompt_NoBlankLine(example) ==
    OpenTag \o " " \o example["instruction"] \o "\n" \o example["input"]
        \o "\n\n" \o Directive \o " " \o CloseTag \o " " \o example["output"]
        \o EosTag

\* a variant that leaves out the end-of-sequence tag
format_prompt_NoEos(example) ==
    OpenTag \o " " \o example["instruction"] \o "\n\n" \o example["input"]
        \o "\n\n" \o Directive \o " " \o CloseTag \o " " \o example["output"]

format_prompt(example) ==
    OpenTag \o " " \o example["instruction"] \o "\n\n" \o example["input"]
        \o "\n\n" \o Directive \o " " \o CloseTag \o " " \o example["output"]
        \o EosTag

(***************************************************************************)
(* RegimeClassifierTrainer.test_classifier: the label extraction           *)
(***************************************************************************)
REGIMES == << "bull", "bear", "sideways", "high-volatility" >>

\* result.split("[/INST]")[-1].strip().lower()
GeneratedText(decoded) == lower(strip(Last(split(decoded, CloseTag))))

\* for regime in [...]: if regime in prediction: prediction = regime; break
RECURSIVE ScanRegimes(_, _)
ScanRegimes(text, k) ==
    IF k > Len(REGIMES) THEN text
    ELSE IF Contains(text, REGIMES[k]) THEN REGIMES[k]
    ELSE ScanRegimes(text, k + 1)

\* a variant that takes the label standing first in the text
ExtractLabel_ByPosition(text) ==
    LET found == { k \in 1..Len(REGIMES) : Contains(text, REGIMES[k]) }
    IN  IF found = {} THEN text
        ELSE REGIMES[CHOOSE k \in found :
                        \A j \in found :
                            Find(text, REGIMES[k]) <= Find(text, REGIMES[j])]

ExtractLabel(text) == ScanRegimes(text, 1)

(***************************************************************************)
(* json.loads / json.load on lexed input.  A token is a string: one of the *)
(* punctuation marks { } [ ] : , or a JSON string with its quotes.  Only   *)
(* the shapes the scripts' inputs have are parsed: an object whose members *)
(* are strings, and an array of such objects.  A failure is the library's  *)
(* JSONDecodeError.                                                        *)
(***************************************************************************)
Quote == "\""

IsStringToken(t) ==
    Len(t) >= 2 /\ SubSeq(t, 1, 1) = Quote /\ SubSeq(t, Len(t), Len(t)) = Quote

Unquote(t) == SubSeq(t, 2, Len(t) - 1)

EmptyDict == [ k \in {} |-> "" ]

ParseFail == [ ok |-> FALSE, value |-> EmptyDict, next |-> 0 ]

\* the members of an object from toks[i] on; a repeated key keeps the last
\* value, as a Python dict does
RECURSIVE ParseMembers(_, _, _)
ParseMembers(toks, i, acc) ==
    IF i + 3 > Len(toks) THEN ParseFail
    ELSE IF IsStringToken(toks[i]) /\ toks[i + 1] = ":"
                /\ IsStringToken(toks[i + 2])
    THEN LET acc2 == (Unquote(toks[i]) :> Unquote(toks[i + 2])) @@ acc
         IN  IF toks[i + 3] = "}"
             THEN [ ok |-> TRUE, value |-> acc2, next |-> i + 4 ]
             ELSE IF toks[i + 3] = ","
             THEN ParseMembers(toks, i + 4, acc2)
             ELSE ParseFail
    ELSE ParseFail

\* the object that starts at toks[i]; next is the position after its "}"
ParseObject(toks, i) ==
    IF i + 1 > Len(toks) \/ toks[i] # "{" THEN ParseFail
    ELSE IF toks[i + 1] = "}"
    THEN [ ok |-> TRUE, value |-> EmptyDict, next |-> i + 2 ]
    ELSE ParseMembers(toks, i + 1, EmptyDict)

\* json.loads(line): the line must hold one object and nothing after it
json_loads(line) ==
    LET r == ParseObject(line, 1)
    IN  IF r.ok /\ r.next = Len(line) + 1
        THEN [ ok |-> TRUE, value |-> r.value ]
        ELSE [ ok |-> FALSE, value |-> EmptyDict ]

ArrayFail == [ ok |-> FALSE, value |-> << >> ]

\* the elements of an array from toks[i] on, up to the "]" that ends the document
RECURSIVE ParseElements(_, _, _)
ParseElements(toks, i, acc) ==
    LET r == ParseObject(toks, i)
    IN  IF ~r.ok \/ r.next > Len(toks) THEN ArrayFail
        ELSE IF toks[r.next] = "]"
        THEN IF r.next = Len(toks)
             THEN [ ok |-> TRUE, value |-> Append(acc, r.value) ]
             ELSE ArrayFail
        ELSE IF toks[r.next] = ","
        THEN ParseElements(toks, r.next + 1, Append(acc, r.value))
        ELSE ArrayFail

\* json.load(f): the document must be one array of objects
json_load(doc) ==
    IF Len(doc) < 2 \/ doc[1] # "[" THEN ArrayFail
    ELSE IF doc[2] = "]"
    THEN IF Len(doc) = 2 THEN [ ok |-> TRUE, value |-> << >> ] ELSE ArrayFail
    ELSE ParseElements(doc, 2, << >>)

(***************************************************************************)
(* The input files the model draws from.  A record is written as its list  *)
(* of << key, value >> members; JsonObject and JsonArray give the tokens   *)
(* of its JSON text.                                                       *)
(***************************************************************************)
RECURSIVE JsonMembers(_)
JsonMembers(members) ==
    IF Len(members) = 0 THEN << >>
    ELSE << Quote \o members[1][1] \o Quote, ":",
            Quote \o members[1][2] \o Quote >>
         \o (IF Len(members) = 1 THEN << >> ELSE << "," >>)
         \o JsonMembers(Tail(members))

JsonObject(members) == << "{" >> \o JsonMembers(members) \o << "}" >>

RECURSIVE JsonElements(_)
JsonElements(objects) ==
    IF Len(objects) = 0 THEN << >>
    ELSE JsonObject(objects[1])
         \o (IF Len(objects) = 1 THEN << >> ELSE << "," >>)
         \o JsonElements(Tail(objects))

JsonArray(objects) == << "[" >> \o JsonElements(objects) \o << "]" >>

\* the dict a list of members (with distinct keys) stands for
DictOf(members) ==
    [ k \in { members[i][1] : i \in 1..Len(members) } |->
        (CHOOSE m \in { members[i] : i \in 1..Len(members) } : m[1] = k)[2] ]

SeqsUpTo(S, n) == UNION { [ 1..k -> S ] : k \in 0..n }

\* regime records: two complete ones, one that lacks "output"
RegimeRecords ==
    { << << "instruction", "Classify" >>, << "input", "RSI: 70" >>,
         << "output", "bull" >> >>,
      << << "input", "RSI: 31\nMACD signal: bearish" >>,
         << "output", "bear" >>, << "instruction", "Analyze" >> >>,
      << << "instruction", "Classify" >>, << "input", "RSI: 70" >> >> }

\* lines that are not JSON: an empty line, an object cut short
MalformedLines ==
    { << >>,
      << "{", "\"instruction\"", ":", "\"Classify\"", "," >> }

RegimeLines == { JsonObject(r) : r \in RegimeRecords } \cup MalformedLines

RegimeFiles ==
    { [ exists |-> TRUE, content |-> c ] : c \in SeqsUpTo(RegimeLines, MaxRecords) }

\* embedding records: two complete ones, one that lacks "negative"
EmbeddingRecords ==
    { << << "anchor", "BTC surge" >>, << "positive", "Bitcoin rally" >>,
         << "negative", "ETH crash" >> >>,
      << << "negative", "MACD" >>, << "anchor", "RSI oversold" >>,
         << "positive", "RSI below 30" >> >>,
      << << "anchor", "BTC surge" >>, << "positive", "Bitcoin rally" >> >> }

\* a document cut short before its "]", and an empty one
Truncated(doc) == SubSeq(doc, 1, Len(doc) - 1)

EmbeddingFiles ==
    { [ exists |-> TRUE, content |-> JsonArray(rs) ] :
          rs \in SeqsUpTo(EmbeddingRecords, MaxRecords) }
    \cup { [ exists |-> TRUE, content |-> Truncated(JsonArray(rs)) ] :
          rs \in SeqsUpTo(EmbeddingRecords, MaxRecords) }

\* no file at the path
MissingFile == [ exists |-> FALSE, content |-> << >> ]

(***************************************************************************)
(* The state between calls, and what every call starts from.               *)
(***************************************************************************)
Unopened == [ state |-> "unopened", content |-> << >> ]
NotFound == [ state |-> "missing", content |-> << >> ]
Opened(f) == [ state |-> "open", content |-> f.content ]

\* what is found at training_data_path when the loader opens it
FilesAtPath ==
    { MissingFile } \cup (IF script = "regime" THEN RegimeFiles ELSE EmbeddingFiles)

trainLocals == << file, data, lineNo, dataset >>
testLocals == << caseIdx, prompt, result, prediction, stdout, caseTrace >>
selfVars == << model, tokenizer >>

NoTrainLocals ==
    /\ file = Unopened
    /\ data = << >>
    /\ lineNo = 0
    /\ dataset = << >>

NoTestLocals ==
    /\ caseIdx = 0
    /\ prompt = ""
    /\ result = ""
    /\ prediction = ""
    /\ stdout = << >>
    /\ caseTrace = << >>

\* __init__ of either trainer: self.model = None, self.tokenizer = None
Init ==
    /\ script \in { "regime", "embedding" }
    /\ model = "None"
    /\ tokenizer = "None"
    /\ pc = "idle"
    /\ error = "none"
    /\ NoTrainLocals
    /\ NoTestLocals
    /\ stages = << >>
    /\ outDir = [ model |-> FALSE, tokenizer |-> FALSE ]
    /\ returned = "nothing"
    /\ calls = 0

\* an exception leaves the call: nothing catches it inside the scripts
Raise(err) ==
    /\ pc' = "aborted"
    /\ error' = err

Completed(stage) == stages' = Append(stages, stage)

(***************************************************************************)
(* RegimeClassifierTrainer.train                                           *)
(***************************************************************************)
train_begin ==
    /\ script = "regime"
    /\ pc = "idle"
    /\ calls < MaxCalls
    /\ calls' = calls + 1
    /\ pc' = "train:load_model"
    /\ UNCHANGED << script, selfVars, error, trainLocals, testLocals, stages,
                    outDir, returned >>

\* self.model = AutoModelForCausalLM.from_pretrained(self.model_name, ...)
train_load_model ==
    /\ script = "regime"
    /\ pc = "train:load_model"
    /\ \/ /\ model' = "pretrained"
          /\ pc' = "train:load_tokenizer"
          /\ Completed("load_model")
          /\ UNCHANGED error
       \/ /\ Raise("ModelLoadError")
          /\ UNCHANGED << model, stages >>
    /\ UNCHANGED << script, tokenizer, trainLocals, testLocals, outDir,
                    returned, calls >>

\* self.tokenizer = AutoTokenizer.from_pretrained(self.model_name)
\* self.tokenizer.pad_token = self.tokenizer.eos_token
train_load_tokenizer ==
    /\ script = "regime"
    /\ pc = "train:load_tokenizer"
    /\ \/ /\ tokenizer' = "set"
          /\ pc' = "train:open"
          /\ Completed("load_tokenizer")
          /\ UNCHANGED error
       \/ /\ Raise("TokenizerLoadError")
          /\ UNCHANGED << tokenizer, stages >>
    /\ UNCHANGED << script, model, trainLocals, testLocals, outDir, returned,
                    calls >>

\* a variant that takes a missing file for an empty one
load_training_data_open_Lenient ==
    /\ script = "regime"
    /\ pc = "train:open"
    /\ \E f \in FilesAtPath :
          /\ file' = IF f.exists THEN Opened(f) ELSE NotFound
          /\ data' = << >>
          /\ lineNo' = 1
          /\ pc' = "train:read"
          /\ UNCHANGED error
    /\ UNCHANGED << script, selfVars, dataset, testLocals, stages, outDir,
                    returned, calls >>

\* load_training_data: data = [] ; with open(filepath, 'r') as f
load_training_data_open ==
    /\ script = "regime"
    /\ pc = "train:open"
    /\ \E f \in FilesAtPath :
          \/ /\ f.exists
             /\ file' = Opened(f)
             /\ data' = << >>
             /\ lineNo' = 1
             /\ pc' = "train:read"
             /\ UNCHANGED error
          \/ /\ ~f.exists
             /\ file' = NotFound
             /\ Raise("FileNotFoundError")
             /\ UNCHANGED << data, lineNo >>
    /\ UNCHANGED << script, selfVars, dataset, testLocals, stages, outDir,
                    returned, calls >>

\* a variant that puts each record at the front of the list
load_training_data_line_Prepend ==
    /\ script = "regime"
    /\ pc = "train:read"
    /\ lineNo <= Len(file.content)
    /\ LET parsed == json_loads(file.content[lineNo])
       IN  \/ /\ parsed.ok
              /\ data' = << parsed.value >> \o data
              /\ lineNo' = lineNo + 1
              /\ UNCHANGED << pc, error >>
           \/ /\ ~parsed.ok
              /\ Raise("JSONDecodeError")
              /\ data' = << >>
              /\ UNCHANGED lineNo
    /\ UNCHANGED << script, selfVars, file, dataset, testLocals, stages,
                    outDir, returned, calls >>

\* a variant that catches the decode error and goes on to the next line
load_training_data_line_Skip ==
    /\ script = "regime"
    /\ pc = "train:read"
    /\ lineNo <= Len(file.content)
    /\ LET parsed == json_loads(file.content[lineNo])
       IN  /\ data' = IF parsed.ok THEN Append(data, parsed.value) ELSE data
           /\ lineNo' = lineNo + 1
           /\ UNCHANGED << pc, error >>
    /\ UNCHANGED << script, selfVars, file, dataset, testLocals, stages,
                    outDir, returned, calls >>

\* for line in f: data.append(json.loads(line))
load_training_data_line ==
    /\ script = "regime"
    /\ pc = "train:read"
    /\ lineNo <= Len(file.content)
    /\ LET parsed == json_loads(file.content[lineNo])
       IN  \/ /\ parsed.ok
              /\ data' = Append(data, parsed.value)
              /\ lineNo' = lineNo + 1
              /\ UNCHANGED << pc, error >>
           \/ /\ ~parsed.ok
              /\ Raise("JSONDecodeError")
              /\ data' = << >>
              /\ UNCHANGED lineNo
    /\ UNCHANGED << script, selfVars, file, dataset, testLocals, stages,
                    outDir, returned, calls >>

\* print(f"Loaded {len(data)} training examples") ; return data
load_training_data_return ==
    /\ script = "regime"
    /\ pc = "train:read"
    /\ lineNo > Len(file.content)
    /\ pc' = "train:prepare"
    /\ Completed("load_data")
    /\ UNCHANGED << script, selfVars, error, trainLocals, testLocals, outDir,
                    returned, calls >>

\* the examples of data that lack a key format_prompt reads
Unformattable(records, keys) ==
    { i \in 1..Len(records) : MissingKey(records[i], keys) # "" }

\* a variant that reads the keys with a default: example.get(key, "")
WithDefaults(example, keys) ==
    [ k \in { keys[i] : i \in 1..Len(keys) } |->
        IF k \in DOMAIN example THEN example[k] ELSE "" ]

prepare_dataset_Defaults ==
    /\ script = "regime"
    /\ pc = "train:prepare"
    /\ dataset' = [ i \in 1..Len(data) |->
                      format_prompt(WithDefaults(data[i], RegimeKeys)) ]
    /\ pc' = "train:tokenize"
    /\ Completed("format")
    /\ UNCHANGED << script, selfVars, error, file, data, lineNo, testLocals,
                    outDir, returned, calls >>

\* prepare_dataset: formatted_data = [self.format_prompt(ex) for ex in data]
prepare_dataset ==
    /\ script = "regime"
    /\ pc = "train:prepare"
    /\ \/ /\ Unformattable(data, RegimeKeys) = {}
          /\ dataset' = [ i \in 1..Len(data) |-> format_prompt(data[i]) ]
          /\ pc' = "train:tokenize"
          /\ Completed("format")
          /\ UNCHANGED error
       \/ /\ Unformattable(data, RegimeKeys) # {}
          /\ Raise("KeyError")
          /\ UNCHANGED << dataset, stages >>
    /\ UNCHANGED << script, selfVars, file, data, lineNo, testLocals, outDir,
                    returned, calls >>

\* tokenize_dataset: dataset.map(tokenize_function, ...), the library's work
tokenize_dataset ==
    /\ script = "regime"
    /\ pc = "train:tokenize"
    /\ \/ /\ pc' = "train:configure"
          /\ Completed("tokenize")
          /\ UNCHANGED error
       \/ /\ Raise("TokenizeError")
          /\ UNCHANGED stages
    /\ UNCHANGED << script, selfVars, trainLocals, testLocals, outDir,
                    returned, calls >>

\* TrainingArguments(...), DataCollatorForLanguageModeling(...), Trainer(...)
train_configure ==
    /\ script = "regime"
    /\ pc = "train:configure"
    /\ \/ /\ pc' = "train:fit"
          /\ Completed("configure")
          /\ UNCHANGED error
       \/ /\ Raise("ConfigError")
          /\ UNCHANGED stages
    /\ UNCHANGED << script, selfVars, trainLocals, testLocals, outDir,
                    returned, calls >>

\* a variant that catches the trainer's failure and goes on to save
train_fit_Swallow ==
    /\ script = "regime"
    /\ pc = "train:fit"
    /\ \/ /\ model' = "trained"
          /\ Completed("train")
       \/ UNCHANGED << model, stages >>
    /\ pc' = "train:save_model"
    /\ UNCHANGED << script, tokenizer, error, trainLocals, testLocals, outDir,
                    returned, calls >>

\* trainer.train(): the trainer changes self.model in place
train_fit ==
    /\ script = "regime"
    /\ pc = "train:fit"
    /\ \/ /\ model' = "trained"
          /\ pc' = "train:save_model"
          /\ Completed("train")
          /\ UNCHANGED error
       \/ /\ Raise("TrainingFailure")
          /\ UNCHANGED << model, stages >>
    /\ UNCHANGED << script, tokenizer, trainLocals, testLocals, outDir,
                    returned, calls >>

\* self.model.save_pretrained(self.output_dir)
train_save_model ==
    /\ script = "regime"
    /\ pc = "train:save_model"
    /\ \/ /\ outDir' = [ outDir EXCEPT !.model = TRUE ]
          /\ pc' = "train:save_tokenizer"
          /\ Completed("save_model")
          /\ UNCHANGED error
       \/ /\ Raise("SaveError")
          /\ UNCHANGED << outDir, stages >>
    /\ UNCHANGED << script, selfVars, trainLocals, testLocals, returned, calls >>

\* self.tokenizer.save_pretrained(self.output_dir) ; print("Training complete!")
train_save_tokenizer ==
    /\ script = "regime"
    /\ pc = "train:save_tokenizer"
    /\ \/ /\ outDir' = [ outDir EXCEPT !.tokenizer = TRUE ]
          /\ pc' = "train:done"
          /\ returned' = "None"
          /\ Completed("save_tokenizer")
          /\ UNCHANGED error
       \/ /\ Raise("SaveError")
          /\ UNCHANGED << outDir, stages, returned >>
    /\ UNCHANGED << script, selfVars, trainLocals, testLocals, calls >>

(***************************************************************************)
(* RegimeClassifierTrainer.test_classifier                                 *)
(***************************************************************************)
TestCases ==
    << [ input |-> "Price: $48,230.00\n30-day change: 15.30%\nVolatility (30d): 2.80%\nRSI: 68.5\nVolume trend: increasing\nPrice position: 85.2% of 30-day range\nMACD signal: bullish",
         expected |-> "bull" ],
       [ input |-> "Price: $42,100.00\n30-day change: -12.50%\nVolatility (30d): 3.20%\nRSI: 32.1\nVolume trend: decreasing\nPrice position: 15.8% of 30-day range\nMACD signal: bearish",
         expected |-> "bear" ],
       [ input |-> "Price: $45,000.00\n30-day change: -2.10%\nVolatility (30d): 1.50%\nRSI: 51.0\nVolume trend: stable\nPrice position: 48.5% of 30-day range\nMACD signal: neutral",
         expected |-> "sideways" ] >>

TestPrompt(test) ==
    OpenTag \o " Analyze market conditions and classify regime:" \o "\n\n"
        \o test.input \o "\n\n" \o Directive \o " " \o CloseTag

\* what the model may generate after the prompt (max_new_tokens=20, sampled)
Continuations ==
    { " bull", " Bear market", " sideways", " bearish, not bull", " unclear" }

\* tokenizer.decode(outputs[0], skip_special_tokens=True): the prompt
\* without its <s>, then the generated text
Decoded(p, continuation) ==
    (IF StartsWith(p, "<s>") THEN SubSeq(p, 4, Len(p)) ELSE p) \o continuation

PassMark == "pass"    \* the check mark the script prints
FailMark == "fail"    \* the cross the script prints

Step(state) == caseTrace' = Append(caseTrace, << caseIdx, state >>)

test_classifier_begin ==
    /\ script = "regime"
    /\ pc = "idle"
    /\ calls < MaxCalls
    /\ calls' = calls + 1
    /\ \/ /\ model = "None"
          /\ pc' = "test:load_model"
          /\ UNCHANGED caseIdx
       \/ /\ model # "None"
          /\ pc' = "test:build"
          /\ caseIdx' = 1
    /\ UNCHANGED << script, selfVars, error, trainLocals, prompt, result,
                    prediction, stdout, caseTrace, stages, outDir, returned >>

\* self.model = AutoModelForCausalLM.from_pretrained(self.output_dir, ...)
test_load_model ==
    /\ script = "regime"
    /\ pc = "test:load_model"
    /\ \/ /\ model' = "checkpoint"
          /\ pc' = "test:load_tokenizer"
          /\ UNCHANGED error
       \/ /\ Raise("ModelLoadError")
          /\ UNCHANGED model
    /\ UNCHANGED << script, tokenizer, trainLocals, testLocals, stages, outDir,
                    returned, calls >>

\* self.tokenizer = AutoTokenizer.from_pretrained(self.output_dir)
test_load_tokenizer ==
    /\ script = "regime"
    /\ pc = "test:load_tokenizer"
    /\ \/ /\ tokenizer' = "set"
          /\ pc' = "test:build"
          /\ caseIdx' = 1
          /\ UNCHANGED error
       \/ /\ Raise("TokenizerLoadError")
          /\ UNCHANGED << tokenizer, caseIdx >>
    /\ UNCHANGED << script, model, trainLocals, prompt, result, prediction,
                    stdout, caseTrace, stages, outDir, returned, calls >>

\* prompt = f"""<s>[INST] Analyze market conditions ... [/INST]"""
test_build_prompt ==
    /\ script = "regime"
    /\ pc = "test:build"
    /\ prompt' = TestPrompt(TestCases[caseIdx])
    /\ Step("prompt-built")
    /\ pc' = "test:generate"
    /\ UNCHANGED << script, selfVars, error, trainLocals, caseIdx, result,
                    prediction, stdout, stages, outDir, returned, calls >>

\* inputs = self.tokenizer(prompt, ...) ; outputs = self.model.generate(...)
\* result = self.tokenizer.decode(outputs[0], skip_special_tokens=True)
test_generate ==
    /\ script = "regime"
    /\ pc = "test:generate"
    /\ \/ /\ tokenizer = "None"
          /\ Raise("TypeError")
          /\ UNCHANGED << result, caseTrace >>
       \/ /\ tokenizer # "None"
          /\ \E c \in Continuations : result' = Decoded(prompt, c)
          /\ Step("generated")
          /\ pc' = "test:extract"
          /\ UNCHANGED error
       \/ /\ tokenizer # "None"
          /\ Raise("GenerateError")
          /\ UNCHANGED << result, caseTrace >>
    /\ UNCHANGED << script, selfVars, trainLocals, caseIdx, prompt, prediction,
                    stdout, stages, outDir, returned, calls >>

\* prediction = result.split("[/INST]")[-1].strip().lower(), then the scan
test_extract ==
    /\ script = "regime"
    /\ pc = "test:extract"
    /\ prediction' = ExtractLabel(GeneratedText(result))
    /\ Step("label-extracted")
    /\ pc' = "test:compare"
    /\ UNCHANGED << script, selfVars, error, trainLocals, caseIdx, prompt,
                    result, stdout, stages, outDir, returned, calls >>

\* a variant that marks a case passed when the expected label occurs in the
\* decoded result, prompt included
Report_FromResult(i, expected, predicted) ==
    [ test |-> i, expected |-> expected, predicted |-> predicted,
      mark |-> IF Contains(result, expected) THEN PassMark ELSE FailMark ]

\* the four print lines of a case: number, expected, predicted, mark
Report(i, expected, predicted) ==
    [ test |-> i, expected |-> expected, predicted |-> predicted,
      mark |-> IF predicted = expected THEN PassMark ELSE FailMark ]

\* print(...) of the case, then the next case or the end of the method
test_compare ==
    /\ script = "regime"
    /\ pc = "test:compare"
    /\ stdout' = Append(stdout,
                        Report(caseIdx, TestCases[caseIdx].expected, prediction))
    /\ Step("compared")
    /\ \/ /\ caseIdx < Len(TestCases)
          /\ caseIdx' = caseIdx + 1
          /\ pc' = "test:build"
          /\ UNCHANGED returned
       \/ /\ caseIdx = Len(TestCases)
          /\ pc' = "test:done"
          /\ returned' = "None"
          /\ UNCHANGED caseIdx
    /\ UNCHANGED << script, selfVars, error, trainLocals, prompt, result,
                    prediction, stages, outDir, calls >>

(***************************************************************************)
(* CryptoEmbeddingTrainer                                                  *)
(***************************************************************************)
EmbeddingKeys == << "anchor", "positive", "negative" >>

emb_train_begin ==
    /\ script = "embedding"
    /\ pc = "idle"
    /\ calls < MaxCalls
    /\ calls' = calls + 1
    /\ pc' = "train:load_model"
    /\ UNCHANGED << script, selfVars, error, trainLocals, testLocals, stages,
                    outDir, returned >>

\* self.model = SentenceTransformer(self.base_model)
emb_train_load_model ==
    /\ script = "embedding"
    /\ pc = "train:load_model"
    /\ \/ /\ model' = "pretrained"
          /\ pc' = "train:open"
          /\ Completed("load_model")
          /\ UNCHANGED error
       \/ /\ Raise("ModelLoadError")
          /\ UNCHANGED << model, stages >>
    /\ UNCHANGED << script, tokenizer, trainLocals, testLocals, outDir,
                    returned, calls >>

\* load_training_data: with open(filepath, 'r') as f
emb_load_training_data_open ==
    /\ script = "embedding"
    /\ pc = "train:open"
    /\ \E f \in FilesAtPath :
          \/ /\ f.exists
             /\ file' = Opened(f)
             /\ pc' = "train:read"
             /\ UNCHANGED error
          \/ /\ ~f.exists
             /\ file' = NotFound
             /\ Raise("FileNotFoundError")
    /\ UNCHANGED << script, selfVars, data, lineNo, dataset, testLocals,
                    stages, outDir, returned, calls >>

\* data = json.load(f) ; return data
emb_load_training_data_read ==
    /\ script = "embedding"
    /\ pc = "train:read"
    /\ LET parsed == json_load(file.content)
       IN  \/ /\ parsed.ok
              /\ data' = parsed.value
              /\ pc' = "train:prepare"
              /\ Completed("load_data")
              /\ UNCHANGED error
           \/ /\ ~parsed.ok
              /\ Raise("JSONDecodeError")
              /\ UNCHANGED << data, stages >>
    /\ UNCHANGED << script, selfVars, file, lineNo, dataset, testLocals,
                    outDir, returned, calls >>

\* InputExample(texts=[item['anchor'], item['positive'], item['negative']])
InputExample(item) == << item["anchor"], item["positive"], item["negative"] >>

\* prepare_examples: one InputExample per item, appended in order
prepare_examples ==
    /\ script = "embedding"
    /\ pc = "train:prepare"
    /\ \/ /\ Unformattable(data, EmbeddingKeys) = {}
          /\ dataset' = [ i \in 1..Len(data) |-> InputExample(data[i]) ]
          /\ pc' = "train:configure"
          /\ Completed("format")
          /\ UNCHANGED error
       \/ /\ Unformattable(data, EmbeddingKeys) # {}
          /\ Raise("KeyError")
          /\ UNCHANGED << dataset, stages >>
    /\ UNCHANGED << script, selfVars, file, data, lineNo, testLocals, outDir,
                    returned, calls >>

\* DataLoader(train_examples, ...), losses.TripletLoss(model=self.model)
emb_train_configure ==
    /\ script = "embedding"
    /\ pc = "train:configure"
    /\ \/ /\ pc' = "train:fit"
          /\ Completed("configure")
          /\ UNCHANGED error
       \/ /\ Raise("ConfigError")
          /\ UNCHANGED stages
    /\ UNCHANGED << script, selfVars, trainLocals, testLocals, outDir,
                    returned, calls >>

\* self.model.fit(..., output_path=self.output_dir): trains, then saves
emb_train_fit ==
    /\ script = "embedding"
    /\ pc = "train:fit"
    /\ \/ /\ model' = "trained"
          /\ outDir' = [ outDir EXCEPT !.model = TRUE ]
          /\ pc' = "train:done"
          /\ returned' = "None"
          /\ stages' = stages \o << "train", "save_model" >>
          /\ UNCHANGED error
       \/ /\ Raise("TrainingFailure")
          /\ UNCHANGED << model, outDir, stages, returned >>
    /\ UNCHANGED << script, tokenizer, trainLocals, testLocals, calls >>

test_embeddings_begin ==
    /\ script = "embedding"
    /\ pc = "idle"
    /\ calls < MaxCalls
    /\ calls' = calls + 1
    /\ \/ /\ model = "None"
          /\ pc' = "test:load_model"
       \/ /\ model # "None"
          /\ pc' = "test:encode"
    /\ UNCHANGED << script, selfVars, error, trainLocals, testLocals, stages,
                    outDir, returned >>

\* self.model = SentenceTransformer(self.output_dir)
test_embeddings_load_model ==
    /\ script = "embedding"
    /\ pc = "test:load_model"
    /\ \/ /\ model' = "checkpoint"
          /\ pc' = "test:encode"
          /\ UNCHANGED error
       \/ /\ Raise("ModelLoadError")
          /\ UNCHANGED model
    /\ UNCHANGED << script, tokenizer, trainLocals, testLocals, stages, outDir,
                    returned, calls >>

\* self.model.encode(test_sentences), cosine_similarity, the printed matrix
test_embeddings_encode ==
    /\ script = "embedding"
    /\ pc = "test:encode"
    /\ \/ /\ pc' = "test:done"
          /\ returned' = "None"
          /\ UNCHANGED error
       \/ /\ Raise("EncodeError")
          /\ UNCHANGED returned
    /\ UNCHANGED << script, selfVars, trainLocals, testLocals, stages, outDir,
                    calls >>

(***************************************************************************)
(* The end of a call: it has returned, or its exception has reached the    *)
(* caller.  The object and the output directory stay as the call left them.*)
(***************************************************************************)
call_ends ==
    /\ pc \in { "train:done", "test:done", "aborted" }
    /\ pc' = "idle"
    /\ error' = "none"
    /\ file' = Unopened
    /\ data' = << >>
    /\ lineNo' = 0
    /\ dataset' = << >>
    /\ caseIdx' = 0
    /\ prompt' = ""
    /\ result' = ""
    /\ prediction' = ""
    /\ stdout' = << >>
    /\ caseTrace' = << >>
    /\ stages' = << >>
    /\ returned' = "nothing"
    /\ UNCHANGED << script, selfVars, outDir, calls >>

Next ==
    \/ train_begin
    \/ train_load_model
    \/ train_load_tokenizer
    \/ load_training_data_open
    \/ load_training_data_line
    \/ load_training_data_return
    \/ prepare_dataset
    \/ tokenize_dataset
    \/ train_configure
    \/ train_fit
    \/ train_save_model
    \/ train_save_tokenizer
    \/ test_classifier_begin
    \/ test_load_model
    \/ test_load_tokenizer
    \/ test_build_prompt
    \/ test_generate
    \/ test_extract
    \/ test_compare
    \/ emb_train_begin
    \/ emb_train_load_model
    \/ emb_load_training_data_open
    \/ emb_load_training_data_read
    \/ prepare_examples
    \/ emb_train_configure
    \/ emb_train_fit
    \/ test_embeddings_begin
    \/ test_embeddings_load_model
    \/ test_embeddings_encode
    \/ call_ends

Spec == Init /\ [][Next]_vars

(***************************************************************************)
(* The label extraction on its own: test_extract applied to decoded texts  *)
(* built from fragments, so that labels meet in every order and position.  *)
(***************************************************************************)
Fragments ==
    { "bull", "bear", "sideways", "high-volatility", "Bear", " ", "[/INST]",
      "ish\n" }

RECURSIVE Concat(_)
Concat(parts) == IF Len(parts) = 0 THEN "" ELSE parts[1] \o Concat(Tail(parts))

DecodedTexts == { Concat(fs) : fs \in SeqsUpTo(Fragments, MaxFragments) }

InitExtract ==
    /\ script = "regime"
    /\ model = "checkpoint"
    /\ tokenizer = "set"
    /\ pc = "test:extract"
    /\ error = "none"
    /\ NoTrainLocals
    /\ caseIdx = 1
    /\ prompt = TestPrompt(TestCases[1])
    /\ result \in DecodedTexts
    /\ prediction = ""
    /\ stdout = << >>
    /\ caseTrace = << << 1, "prompt-built" >>, << 1, "generated" >> >>
    /\ stages = << >>
    /\ outDir = [ model |-> TRUE, tokenizer |-> TRUE ]
    /\ returned = "nothing"
    /\ calls = 1

NextExtract == test_extract

SpecExtract == InitExtract /\ [][NextExtract]_vars

(***************************************************************************)
(* The prompt formatting on its own: prepare_dataset applied to one loaded *)
(* record whose texts are drawn from sets that hold empty texts and texts  *)
(* that repeat pieces of the template.                                     *)
(***************************************************************************)
InstructionTexts == { "Classify", "", "Say [/INST] bull", "Analyze\n\nthis" }
InputTexts == { "RSI: 70", "", "Classify the market regime as one of: bull", "</s>" }
OutputTexts == { "bull", "bear", "sideways", "high-volatility", "" }

FormatRecords ==
    { << << "instruction", a >>, << "input", b >>, << "output", c >> >> :
          a \in InstructionTexts, b \in InputTexts, c \in OutputTexts }

InitFormat ==
    /\ script = "regime"
    /\ model = "pretrained"
    /\ tokenizer = "set"
    /\ pc = "train:prepare"
    /\ error = "none"
    /\ \E r \in FormatRecords :
          /\ file = [ state |-> "open", content |-> << JsonObject(r) >> ]
          /\ data = << DictOf(r) >>
    /\ lineNo = 2
    /\ dataset = << >>
    /\ NoTestLocals
    /\ stages = << "load_model", "load_tokenizer", "load_data" >>
    /\ outDir = [ model |-> FALSE, tokenizer |-> FALSE ]
    /\ returned = "nothing"
    /\ calls = 1

NextFormat == prepare_dataset

SpecFormat == InitFormat /\ [][NextFormat]_vars

\* the generated text, told by the place of the last closing tag
AfterLastTag(s) ==
    LET at == { i \in 1..(Len(s) - Len(CloseTag) + 1) :
                    SubSeq(s, i, i + Len(CloseTag) - 1) = CloseTag }
    IN  IF at = {} THEN s ELSE SubSeq(s, Max(at) + Len(CloseTag), Len(s))

TextOf(decoded) == lower(strip(AfterLastTag(decoded)))

(***************************************************************************)
(* C1.  Label extraction: whenever a label occurs in the generated text    *)
(* (the part of the decoded result after the last "[/INST]", stripped and  *)
(* lower-cased), the prediction is the first label, in the order bull,     *)
(* bear, sideways, high-volatility, that occurs in it as a substring,      *)
(* wherever in the text the labels stand.                                  *)
(***************************************************************************)
C1_FirstLabelInPriorityOrder ==
    pc = "test:compare" =>
        \A k \in 1..Len(REGIMES) :
            ( /\ Contains(TextOf(result), REGIMES[k])
              /\ \A j \in 1..(k - 1) : ~Contains(TextOf(result), REGIMES[j]) )
            => prediction = REGIMES[k]

\* C1, witness: "bear" stands before "bull" in the text, and bull is extracted
C1_Witness ==
    /\ pc = "test:compare"
    /\ result = "bear bull"
    /\ Find(TextOf(result), "bear") < Find(TextOf(result), "bull")
    /\ prediction = "bull"

\* the first position at or after from where sub occurs in s, 0 when none
FindFrom(s, sub, from) ==
    LET at == { i \in from..(Len(s) - Len(sub) + 1) :
                    SubSeq(s, i, i + Len(sub) - 1) = sub }
    IN  IF at = {} THEN 0 ELSE Min(at)

\* parts[k..] occur in s in this order, from position from on
RECURSIVE InOrderFrom(_, _, _, _)
InOrderFrom(s, parts, k, from) ==
    IF k > Len(parts) THEN TRUE
    ELSE LET i == FindFrom(s, parts[k], from)
         IN  i # 0 /\ InOrderFrom(s, parts, k + 1, i + Len(parts[k]))

InOrder(s, parts) == InOrderFrom(s, parts, 1, 1)

BlankLine == "\n\n"

(***************************************************************************)
(* C2.  Every prompt format_prompt renders holds, unaltered, one after the *)
(* other and without overlap: the opening tag "<s>[INST]", the record's    *)
(* instruction, a blank line, the record's input, the directive naming the *)
(* four labels, the closing tag "[/INST]", and the record's gold output.   *)
(***************************************************************************)
C2_PromptHoldsPartsInOrder ==
    (script = "regime" /\ pc = "train:tokenize") =>
        /\ Len(dataset) = Len(data)
        /\ \A i \in 1..Len(data) :
              InOrder(dataset[i],
                      << OpenTag, data[i]["instruction"], BlankLine,
                         data[i]["input"], Directive, CloseTag,
                         data[i]["output"] >>)

\* C2, witness: the record of the spec's scenario 2, and its prompt as Python renders it
C2_Witness ==
    /\ pc = "train:tokenize"
    /\ data = << [ instruction |-> "Classify", input |-> "RSI: 70",
                   output |-> "bull" ] >>
    /\ dataset = << "<s>[INST] Classify\n\nRSI: 70\n\nClassify the market regime as one of: bull, bear, sideways, or high-volatility [/INST] bull</s>" >>

(***************************************************************************)
(* C3.  As claimed: every rendered prompt ends with the record's gold      *)
(* output, which stands after the closing tag "[/INST]" and is the last    *)
(* text of the prompt.                                                     *)
(***************************************************************************)
C3_PromptEndsWithGoldOutput ==
    (script = "regime" /\ pc = "train:tokenize") =>
        \A i \in 1..Len(data) :
            /\ EndsWith(dataset[i], data[i]["output"])
            /\ InOrder(dataset[i], << CloseTag, data[i]["output"] >>)

(***************************************************************************)
(* C3, amended.  Every rendered prompt ends with the closing tag           *)
(* "[/INST]", a space, the record's gold output and the end-of-sequence    *)
(* tag "</s>": the gold output is the last text before the final "</s>".   *)
(***************************************************************************)
C3_PromptEndsWithGoldOutputAndEos ==
    (script = "regime" /\ pc = "train:tokenize") =>
        \A i \in 1..Len(data) :
            EndsWith(dataset[i],
                     CloseTag \o " " \o data[i]["output"] \o EosTag)

\* C3, witness: a prompt that ends with "[/INST] bull</s>" and not with "bull"
C3_Witness ==
    /\ pc = "train:tokenize"
    /\ Len(data) = 1
    /\ data[1]["output"] = "bull"
    /\ data[1]["input"] = "RSI: 70"
    /\ EndsWith(dataset[1], "[/INST] bull</s>")
    /\ ~EndsWith(dataset[1], "bull")

(***************************************************************************)
(* What the input files hold, told from the way they were written, not     *)
(* from what the parser makes of them.                                     *)
(***************************************************************************)
RegimeObjectLines == { JsonObject(r) : r \in RegimeRecords }

\* a JSONL file with one JSON object on every line
ValidRegimeFile(content) ==
    \A i \in 1..Len(content) : content[i] \in RegimeObjectLines

RegimeRecordAt(content, i) ==
    DictOf(CHOOSE r \in RegimeRecords : JsonObject(r) = content[i])

\* a JSON document that is an array of objects
ValidEmbeddingFile(content) ==
    \E rs \in SeqsUpTo(EmbeddingRecords, MaxRecords) : JsonArray(rs) = content

EmbeddingRecordsOf(content) ==
    LET rs == CHOOSE rs \in SeqsUpTo(EmbeddingRecords, MaxRecords) :
                  JsonArray(rs) = content
    IN  [ i \in 1..Len(rs) |-> DictOf(rs[i]) ]

\* the records of the opened file, in the order of the file
RecordsOfFile ==
    IF script = "regime"
    THEN [ i \in 1..Len(file.content) |-> RegimeRecordAt(file.content, i) ]
    ELSE EmbeddingRecordsOf(file.content)

ValidFile ==
    /\ file.state = "open"
    /\ IF script = "regime" THEN ValidRegimeFile(file.content)
       ELSE ValidEmbeddingFile(file.content)

Lacks(record) ==
    MissingKey(record, IF script = "regime" THEN RegimeKeys ELSE EmbeddingKeys) # ""

Loaded == \E k \in 1..Len(stages) : stages[k] = "load_data"

Did(stage) == \E k \in 1..Len(stages) : stages[k] = stage

(***************************************************************************)
(* C4.  For a valid input file (one JSON object per line for the regime    *)
(* loader, a JSON array for the embedding loader) load_training_data does  *)
(* not fail on the format, and what it returns has as many elements as the *)
(* file has records, the i-th element being the i-th record of the file.   *)
(***************************************************************************)
C4_LoaderKeepsRecordsInOrder ==
    ValidFile =>
        /\ error # "JSONDecodeError"
        /\ Loaded =>
              /\ Len(data) = Len(RecordsOfFile)
              /\ \A i \in 1..Len(data) : data[i] = RecordsOfFile[i]

\* C4, witness: two different records loaded from a JSONL file, in the file's order
C4_Witness ==
    /\ script = "regime"
    /\ ValidFile
    /\ Loaded
    /\ Len(data) = 2
    /\ data[1] # data[2]
    /\ data[1] = RegimeRecordAt(file.content, 1)

\* the positions of the lines that are not JSON
BadLines == { i \in 1..Len(file.content) : file.content[i] \in MalformedLines }

C6_MissingFileStopsBeforeFormatting ==
    file.state = "missing" =>
        /\ pc = "aborted"
        /\ error = "FileNotFoundError"
        /\ data = << >>
        /\ dataset = << >>
        /\ \A k \in 1..Len(stages) :
              stages[k] \in { "load_model", "load_tokenizer" }

\* C6, witness: the regime run stopped by the missing file, right after the
\* model and the tokenizer were loaded
C6_Witness ==
    /\ script = "regime"
    /\ file.state = "missing"
    /\ error = "FileNotFoundError"
    /\ stages = << "load_model", "load_tokenizer" >>

(***************************************************************************)
(* C7.  For a well-formed input file with a record that lacks a required   *)
(* key, load_training_data succeeds and returns every record as it stands  *)
(* in the file; the run then fails in the formatting stage with the        *)
(* missing-key error, and never gets as far as tokenizing or training.     *)
(***************************************************************************)
C7_MissingKeySurfacesAtFormatting ==
    (ValidFile /\ \E i \in 1..Len(RecordsOfFile) : Lacks(RecordsOfFile[i])) =>
        /\ pc \in { "train:read", "train:prepare", "aborted" }
        /\ Loaded => data = RecordsOfFile
        /\ pc = "aborted" => (error = "KeyError" /\ Loaded)
        /\ ~Did("format") /\ ~Did("tokenize") /\ ~Did("train")

\* C7, witness: the record without "negative" was loaded as it is, then formatting failed
C7_Witness ==
    /\ script = "embedding"
    /\ ValidFile
    /\ pc = "aborted"
    /\ error = "KeyError"
    /\ Len(data) = 2
    /\ DOMAIN data[2] = { "anchor", "positive" }
    /\ stages = << "load_model", "load_data" >>

\* the states a test case goes through
CaseStates == << "prompt-built", "generated", "label-extracted", "compared" >>

\* (1, prompt-built), ..., (1, compared), (2, prompt-built), ...
CaseSteps ==
    [ k \in 1..(Len(TestCases) * Len(CaseStates)) |->
        << ((k - 1) \div Len(CaseStates)) + 1,
           CaseStates[((k - 1) % Len(CaseStates)) + 1] >> ]

IsPrefix(a, b) == Len(a) <= Len(b) /\ SubSeq(b, 1, Len(a)) = a

Compared == { k \in 1..Len(caseTrace) : caseTrace[k][2] = "compared" }

(***************************************************************************)
(* C8.  test_classifier takes its three test cases in list order.  Each    *)
(* case goes through prompt-built, generated, label-extracted, compared,   *)
(* in that order and once each; a case is begun only when the one before   *)
(* it has been reported; every report names its case and carries the pass  *)
(* mark exactly when the extracted prediction equals the expected label;   *)
(* the method returns None.                                                *)
(***************************************************************************)
C8_CasesInOrderOneReportEach ==
    script = "regime" =>
        /\ IsPrefix(caseTrace, CaseSteps)
        /\ Len(stdout) = Cardinality(Compared)
        /\ \A k \in 1..Len(stdout) :
              /\ stdout[k].test = k
              /\ stdout[k].expected = TestCases[k].expected
              /\ stdout[k].mark \in { PassMark, FailMark }
              /\ stdout[k].mark = PassMark
                     <=> stdout[k].predicted = stdout[k].expected
        /\ (caseTrace # << >> /\ Last(caseTrace)[2] = "compared")
               => Last(stdout).predicted = prediction
        /\ pc = "test:done" =>
              /\ caseTrace = CaseSteps
              /\ Len(stdout) = Len(TestCases)
              /\ returned = "None"

\* C8, witness: a finished run with a passed case, a failed case whose decoded result
\* holds the expected label all the same, and a passed one
C8_Witness ==
    /\ pc = "test:done"
    /\ Len(stdout) = 3
    /\ stdout[1].mark = PassMark
    /\ stdout[2].mark = FailMark
    /\ stdout[2].predicted = "bull"
    /\ stdout[3].mark = PassMark

\* the stages of the regime train(), in the order of its statements
RegimeStageOrder ==
    << "load_model", "load_tokenizer", "load_data", "format", "tokenize",
       "configure", "train", "save_model", "save_tokenizer" >>

StagesBeforeSave ==
    << "load_model", "load_tokenizer", "load_data", "format", "tokenize",
       "configure", "train" >>

(***************************************************************************)
(* C9.  In the regime train() run the stages complete in the order model   *)
(* loading, tokenizer loading, data loading, prompt formatting,            *)
(* tokenization, trainer set-up, trainer.train(), saving the model, saving *)
(* the tokenizer.  The script writes to the output directory only in a     *)
(* step that has all the stages up to trainer.train() behind it; a step    *)
(* that fails completes no stage and writes nothing, and after it the run  *)
(* does nothing more than hand the error to the caller.                    *)
(***************************************************************************)
C9_SaveOnlyAfterEveryStage ==
    [][ script = "regime" =>
          /\ IsPrefix(stages', RegimeStageOrder)
          /\ error' # "none" => pc' = "aborted"
          /\ outDir' # outDir =>
                (IsPrefix(StagesBeforeSave, stages) /\ pc' # "aborted")
          /\ pc' = "aborted" => (stages' = stages /\ outDir' = outDir)
          /\ pc = "aborted" =>
                (pc' = "idle" /\ outDir' = outDir /\ stages' = << >>) ]_vars

\* C9, witness: a run that went through every stage and saved both
C9_Witness ==
    /\ script = "regime"
    /\ pc = "train:done"
    /\ stages = RegimeStageOrder
    /\ outDir = [ model |-> TRUE, tokenizer |-> TRUE ]
    /\ model = "trained"

(***************************************************************************)
(* C10.  As claimed: on a RegimeClassifierTrainer, between calls, a model  *)
(* that is set comes with a tokenizer that is set, and test_classifier     *)
(* never reaches its tokenizer call with self.tokenizer unset.             *)
(***************************************************************************)
C10_ModelSetImpliesTokenizerSet ==
    script = "regime" =>
        /\ (pc = "idle" /\ model # "None") => tokenizer # "None"
        /\ pc = "test:generate" => tokenizer # "None"

=============================================================================
